---- MODULE Spec2Model ----
(***************************************************************************)
(* html2text: rendering of a parsed HTML node tree to plain text.          *)
(*                                                                         *)
(* A string is a sequence of one-character strings.  The node tree is fed  *)
(* to the traversal in document order: an element handler that recurses    *)
(* through traverseChildren is split at that call into an Open action (the *)
(* code before the call) and a Close action (the code after it); handlers  *)
(* that do not recurse are single actions.  A render context created by    *)
(* sub() or by renderEachChild's nested FromHTMLNode is pushed on ctxs and *)
(* popped when the element that created it is closed.                      *)
(***************************************************************************)
EXTENDS Integers, Sequences, FiniteSets, TLC

VARIABLES
    options,   \* Options of the call: PrettyTables, OmitLinks, TextOnly
    ctxs,      \* stack of textifyTraverseContext; ctxs[1] is FromHTMLNode's
    stack,     \* element handlers waiting in traverseChildren (innermost last)
    doc,       \* the nodes visited so far, in document order (the input)
    pc,        \* "start", "run", "done" (returned) or "panic"
    text,      \* returned string
    err,       \* returned error, "nil" when none
    tables,    \* the accumulators handed to the table renderer, in order
    limits     \* bounds on the generated tree: [nodes, depth] (never change)

vars == <<options, ctxs, stack, doc, pc, text, err, tables, limits>>

(***************************************************************************)
(* Strings                                                                 *)
(***************************************************************************)
NL == "\n"
SP == " "
\* Stand-in for an East Asian wide rune (display width 2).
Wide == "W"

\* unicode.IsSpace on the characters of the model
IsSpace(c) == c \in {" ", "\n", "\t"}

\* runewidth.RuneWidth: wide runes occupy two columns, the others one.
\* (Runes that occupy no column are not part of the model's alphabet.)
RuneWidth(c) == IF c = Wide THEN 2 ELSE 1

\* runewidth.StringWidth: the sum of the widths of the runes.
StringWidth(s) == Len(s) + Cardinality({i \in 1..Len(s) : s[i] = Wide})

\* strings.Repeat
Repeat(s, n) ==
    IF n <= 0 \/ s = <<>> THEN <<>>
    ELSE [i \in 1..(n * Len(s)) |-> s[((i - 1) % Len(s)) + 1]]

\* The smallest element of a non-empty set of integers.
Least(S) == CHOOSE i \in S : \A j \in S : i <= j

\* The largest element of a non-empty set of integers.
Greatest(S) == CHOOSE i \in S : \A j \in S : i >= j

NonSpaces(s) == {i \in 1..Len(s) : ~IsSpace(s[i])}

TrimLeft(s) ==
    IF NonSpaces(s) = {} THEN <<>>
    ELSE SubSeq(s, Least(NonSpaces(s)), Len(s))

TrimRight(s) ==
    IF NonSpaces(s) = {} THEN <<>>
    ELSE SubSeq(s, 1, Greatest(NonSpaces(s)))

TrimSpace(s) == TrimRight(TrimLeft(s))

HasPrefix(s, p) == Len(s) >= Len(p) /\ SubSeq(s, 1, Len(p)) = p

TrimPrefix(s, p) ==
    IF HasPrefix(s, p) THEN SubSeq(s, Len(p) + 1, Len(s)) ELSE s

\* strings.Fields: the maximal runs of non-space characters, in order
\* (FieldsFrom: those that start at index i or later).
RECURSIVE FieldsFrom(_, _)
FieldsFrom(s, i) ==
    LET words == {j \in i..Len(s) : ~IsSpace(s[j])}
    IN  IF words = {} THEN <<>>
        ELSE LET a == Least(words)
                 spaces == {j \in a..Len(s) : IsSpace(s[j])}
                 e == IF spaces = {} THEN Len(s) ELSE Least(spaces) - 1
             IN  <<SubSeq(s, a, e)>> \o FieldsFrom(s, e + 1)

Fields(s) == FieldsFrom(s, 1)

\* strings.Split(s, sep) for a one-character separator (SplitFrom: the
\* pieces of s from index i on).
RECURSIVE SplitFrom(_, _, _)
SplitFrom(s, sep, i) ==
    LET seps == {j \in i..Len(s) : s[j] = sep}
    IN  IF seps = {} THEN <<SubSeq(s, i, Len(s))>>
        ELSE <<SubSeq(s, i, Least(seps) - 1)>>
                 \o SplitFrom(s, sep, Least(seps) + 1)

Split(s, sep) == SplitFrom(s, sep, 1)

\* s without the characters at the indices in drop.
Without(s, drop) ==
    LET marked == [i \in 1..Len(s) |-> [ch |-> s[i], keep |-> i \notin drop]]
        kept == SelectSeq(marked, LAMBDA m : m.keep)
    IN  [i \in 1..Len(kept) |-> kept[i].ch]

ReplaceNewlineSpaceOnce(s) ==
    LET at == {i \in 2..Len(s) : s[i - 1] = NL /\ s[i] = SP}
    IN  IF at = {} THEN s ELSE Without(s, {Least(at)})

\* strings.Replace(s, "\n ", "\n", -1).  Occurrences of "\n " cannot overlap,
\* so each one is replaced: the space right after a newline is removed, and
\* only that one.
ReplaceNewlineSpace(s) ==
    Without(s, {i \in 2..Len(s) : s[i - 1] = NL /\ s[i] = SP})

\* newlineRe.ReplaceAllString(s, "\n\n") with newlineRe = `\n\n+`: of a run
\* of newlines the first two are kept.
newlineRe(s) ==
    Without(s, {i \in 3..Len(s) : s[i] = NL /\ s[i - 1] = NL /\ s[i - 2] = NL})

\* The final normalisation FromHTMLNode applies to the render buffer.
Normalize(buf) == TrimSpace(newlineRe(ReplaceNewlineSpace(buf)))

RECURSIVE Join(_, _)
Join(ss, sep) ==
    IF ss = <<>> THEN <<>>
    ELSE IF Len(ss) = 1 THEN ss[1]
    ELSE ss[1] \o sep \o Join(Tail(ss), sep)

\* s contains p as a contiguous substring
Contains(s, p) ==
    \E i \in 1..(Len(s) - Len(p) + 1) : SubSeq(s, i, i + Len(p) - 1) = p

flushNForgets(c, k) ==
    LET l == c.lineWrapper
        n == k - l.nl
    IN  IF l.n = 0 /\ l.nl >= k THEN c
        ELSE IF n < 1 THEN c
        ELSE [c EXCEPT !.buf = @ \o Repeat(<<NL>>, n),
                       !.lineWrapper.pendSpace = 0,
                       !.lineWrapper.n = 0]

(***************************************************************************)
(* lineWrapper.  A context c carries the wrapper's fields in c.lineWrapper *)
(* and the buffer the wrapper writes to (out = &ctx.buf) in c.buf.         *)
(***************************************************************************)
width == 78

flushN(c, k) ==
    LET l == c.lineWrapper
        n == k - l.nl
    IN  IF l.n = 0 /\ l.nl >= k THEN c
        ELSE IF n < 1 THEN c
        ELSE [c EXCEPT !.buf = @ \o Repeat(<<NL>>, n),
                       !.lineWrapper.pendSpace = 0,
                       !.lineWrapper.n = 0,
                       !.lineWrapper.nl = l.nl + n]

flush(c) == flushN(c, 1)

MustWrapOffByOne(l, w) == l.n > 0 /\ l.n + l.pendSpace + w >= l.width

\* The wrap test of write's loop.
MustWrap(l, w) == l.n > 0 /\ l.n + l.pendSpace + w > l.width

writeFieldNoReset(c, f) ==
    LET l == c.lineWrapper
        w == StringWidth(f)
        wrap == MustWrap(l, w)
        p0 == IF wrap THEN 0 ELSE l.pendSpace
    IN  [c EXCEPT !.buf = @ \o (IF wrap THEN <<NL>> ELSE <<>>)
                            \o Repeat(<<SP>>, p0) \o f,
                  !.lineWrapper.n = l.n + p0 + w,
                  !.lineWrapper.pendSpace = 1]

\* One iteration of write's loop, for the word f.
writeField(c, f) ==
    LET l == c.lineWrapper
        w == StringWidth(f)
        wrap == MustWrap(l, w)
        n0 == IF wrap THEN 0 ELSE l.n
        p0 == IF wrap THEN 0 ELSE l.pendSpace
    IN  [c EXCEPT !.buf = @ \o (IF wrap THEN <<NL>> ELSE <<>>)
                            \o Repeat(<<SP>>, p0) \o f,
                  !.lineWrapper.n = n0 + p0 + w,
                  !.lineWrapper.pendSpace = 1]

RECURSIVE writeFields(_, _)
writeFields(c, fs) ==
    IF fs = <<>> THEN c ELSE writeFields(writeField(c, Head(fs)), Tail(fs))

writeKeepsNl(c, s) ==
    LET c0 == IF c.lineWrapper.n = 0 /\ c.lineWrapper.printed
              THEN flush(c) ELSE c
        c1 == [c0 EXCEPT !.lineWrapper.printed = TRUE]
    IN  writeFields(c1, Fields(s))

write(c, s) ==
    LET c0 == IF c.lineWrapper.n = 0 /\ c.lineWrapper.printed
              THEN flush(c) ELSE c
        c1 == [c0 EXCEPT !.lineWrapper.printed = TRUE,
                         !.lineWrapper.nl = 0]
    IN  writeFields(c1, Fields(s))

(***************************************************************************)
(* Render contexts                                                         *)
(***************************************************************************)
tableCtxInit ==
    [header |-> <<>>, body |-> <<>>, footer |-> <<>>,
     tmpRow |-> 0, isInFooter |-> FALSE]

\* The context FromHTMLNode constructs.
NewContext ==
    [buf |-> <<>>, prefix |-> <<>>, tableCtx |-> tableCtxInit,
     endsWithSpace |-> FALSE, justClosedDiv |-> FALSE,
     blockquoteLevel |-> 0, tableLevel |-> 0,
     lineWrapper |-> [width |-> width, n |-> 0, nl |-> 0,
                      pendSpace |-> 0, printed |-> FALSE],
     isPre |-> FALSE]

sub(c) == [NewContext EXCEPT !.lineWrapper.width = c.lineWrapper.width]

emit(c, data) ==
    IF c.tableLevel > 0
    THEN [flush(c) EXCEPT !.buf = @ \o data]
    ELSE IF data = <<>> THEN c
    ELSE IF data = <<NL>> THEN flush(c)
    ELSE IF data = <<NL, NL>> THEN flushN(c, 2)
    ELSE write(c, data)

normalizeHrefLink(link) ==
    TrimPrefix(TrimSpace(link), <<"m", "a", "i", "l", "t", "o", ":">>)

(***************************************************************************)
(* The traversal                                                           *)
(***************************************************************************)
Top(s) == s[Len(s)]
Pop(s) == SubSeq(s, 1, Len(s) - 1)
SetTop(s, x) == [s EXCEPT ![Len(s)] = x]

\* A visited node: k is "text", "open", "close" or "leaf"; tag the element's
\* DataAtom; data the text of a text node, the href of an a, the alt of an img.
Ev(k, tag, data) == [k |-> k, tag |-> tag, data |-> data]

\* A handler waiting in traverseChildren.  nkids and first describe the
\* children visited so far (what FirstChild / NextSibling / LastChild show);
\* cells holds renderEachChild's per-child results.
Frame(tag, href) ==
    [tag |-> tag, href |-> href, nkids |-> 0,
     first |-> [type |-> "none", data |-> <<>>], cells |-> <<>>]

\* td and th render their children through renderEachChild when
\* PrettyTables is on.
IsCellFrame(f) == options.PrettyTables /\ f.tag \in {"td", "th"}

InCell == stack # <<>> /\ IsCellFrame(Top(stack))

EnteredShared ==
    IF InCell
    THEN Append(SetTop(ctxs, [Top(ctxs) EXCEPT !.buf = @ \o <<NL>>]), NewContext)
    ELSE ctxs

\* renderEachChild line 495: a direct child of a cell is rendered by a
\* nested FromHTMLNode, in a context of its own.
Entered == IF InCell THEN Append(ctxs, NewContext) ELSE ctxs

\* The context in which handleElement runs, after line 163.
Cur == [Top(Entered) EXCEPT !.justClosedDiv = FALSE]

NoteChild(st, type, data) ==
    IF st = <<>> THEN st
    ELSE SetTop(st, [Top(st) EXCEPT
             !.nkids = @ + 1,
             !.first = IF Top(st).nkids = 0
                       THEN [type |-> type, data |-> data] ELSE @])

\* A node has been traversed, st being the handlers still open.  When the
\* node was a direct child of a cell, the nested FromHTMLNode returns:
\* lines 86-89 and 499.
Leave(cs, st) ==
    IF st # <<>> /\ IsCellFrame(Top(st))
    THEN [ctxs |-> Pop(cs),
          stack |-> SetTop(st, [Top(st) EXCEPT
                        !.cells = Append(@, Normalize(Top(cs).buf))])]
    ELSE [ctxs |-> cs, stack |-> st]

\* Generation bounds: the number of nodes visited and the nesting depth.
RECURSIVE NodeCount(_)
NodeCount(d) ==
    IF d = <<>> THEN 0
    ELSE (IF Head(d).k = "close" THEN 0 ELSE 1) + NodeCount(Tail(d))

Room == NodeCount(doc) < limits.nodes
Shallow == Len(stack) < limits.depth

\* A node without traversed children: c is its context when handled.
LeafNode(ev, type, c) ==
    /\ Room
    /\ LET r == Leave(SetTop(Entered, c), NoteChild(stack, type, ev.data))
       IN  /\ ctxs' = r.ctxs
           /\ stack' = r.stack
           /\ doc' = Append(doc, ev)
    /\ UNCHANGED <<options, pc, text, err, tables, limits>>

\* The handler reaches traverseChildren: c is its context at that point,
\* subs the sub-context it created (if any).
OpenElement(tag, href, c, subs) ==
    /\ Room
    /\ Shallow
    /\ ctxs' = SetTop(Entered, c) \o subs
    /\ stack' = Append(NoteChild(stack, "elem", <<>>), Frame(tag, href))
    /\ doc' = Append(doc, Ev("open", tag, href))
    /\ UNCHANGED <<options, pc, text, err, tables, limits>>

\* traverseChildren returned and the handler ran to its end, leaving the
\* contexts cs.
Closed(cs) ==
    LET r == Leave(cs, Pop(stack))
    IN  /\ ctxs' = r.ctxs
        /\ stack' = r.stack
        /\ doc' = Append(doc, Ev("close", Top(stack).tag, <<>>))

CloseElement(cs) ==
    /\ Closed(cs)
    /\ UNCHANGED <<options, pc, text, err, tables, limits>>

Closing(tags) == pc = "run" /\ stack # <<>> /\ Top(stack).tag \in tags

\* traverse, case html.TextNode
TextNode(d) ==
    /\ pc = "run"
    /\ LET c == Top(Entered)
           data == IF c.isPre THEN d ELSE TrimSpace(d)
       IN  LeafNode(Ev("text", "", d), "text", emit(c, data))

\* handleElement, case atom.Br
Br ==
    /\ pc = "run"
    /\ LeafNode(Ev("leaf", "br", <<>>), "elem", emit(Cur, <<NL, NL>>))

\* handleElement, case atom.Style, atom.Script, atom.Head: the subtree is
\* not traversed.
SkipSubtree(tag) ==
    /\ pc = "run"
    /\ LeafNode(Ev("leaf", tag, <<>>), "elem", Cur)

\* An img element (default case; it has no children).
Img(alt) ==
    /\ pc = "run"
    /\ LeafNode(Ev("leaf", "img", alt), "img", Cur)

\* handleElement, default case.
OpenOther(tag) ==
    /\ pc = "run"
    /\ OpenElement(tag, <<>>, Cur, <<>>)

CloseOther(tags) ==
    /\ Closing(tags)
    /\ CloseElement(ctxs)

Max(a, b) == IF a > b THEN a ELSE b

RECURSIVE MaxLineWidth(_)
MaxLineWidth(lines) ==
    IF lines = <<>> THEN 0
    ELSE Max(StringWidth(TrimRight(Head(lines))), MaxLineWidth(Tail(lines)))

\* handleElement, case atom.H1, atom.H2, atom.H3, lines 175-207
headingEmit(c, tag, str) ==
    IF options.TextOnly
    THEN emit(c, str \o <<NL, NL>>)
    ELSE LET dividerLen == MaxLineWidth(Split(str, NL))
             divider == IF tag = "h1" THEN Repeat(<<"*">>, dividerLen)
                        ELSE Repeat(<<"-">>, dividerLen)
             c1 == emit(c, <<NL, NL>>)
             c2 == IF tag = "h1" THEN emit(emit(c1, divider), <<NL>>) ELSE c1
             c3 == emit(emit(c2, str), <<NL>>)
         IN  emit(emit(c3, divider), <<NL, NL>>)

OpenHeading(tag) ==
    /\ pc = "run"
    /\ tag \in {"h1", "h2", "h3"}
    /\ OpenElement(tag, <<>>, Cur, <<sub(Cur)>>)

CloseHeading ==
    /\ Closing({"h1", "h2", "h3"})
    /\ LET str == Top(ctxs).buf
           cs == Pop(ctxs)
       IN  CloseElement(SetTop(cs, headingEmit(Top(cs), Top(stack).tag, str)))

\* handleElement, case atom.Blockquote
OpenBlockquote ==
    /\ pc = "run"
    /\ LET c0 == [Cur EXCEPT !.blockquoteLevel = @ + 1]
           c1 == IF options.TextOnly THEN c0
                 ELSE [c0 EXCEPT !.prefix =
                          Repeat(<<">">>, c0.blockquoteLevel) \o <<SP>>]
           c2 == emit(c1, <<NL>>)
           c3 == IF c2.blockquoteLevel = 1 THEN emit(c2, <<NL>>) ELSE c2
       IN  OpenElement("blockquote", <<>>, c3, <<>>)

CloseBlockquote ==
    /\ Closing({"blockquote"})
    /\ LET c0 == [Top(ctxs) EXCEPT !.blockquoteLevel = @ - 1]
           c1 == IF options.TextOnly THEN c0
                 ELSE [c0 EXCEPT !.prefix = Repeat(<<">">>, c0.blockquoteLevel)]
           c2 == IF c1.blockquoteLevel > 0
                 THEN [c1 EXCEPT !.prefix = @ \o <<SP>>] ELSE c1
       IN  CloseElement(SetTop(ctxs, emit(c2, <<NL, NL>>)))

\* handleElement, case atom.Div
OpenDiv ==
    /\ pc = "run"
    /\ OpenElement("div", <<>>, flush(Cur), <<>>)

divClose(c) ==
    [(IF ~c.justClosedDiv THEN emit(c, <<NL>>) ELSE c)
        EXCEPT !.justClosedDiv = TRUE]

CloseDiv ==
    /\ Closing({"div"})
    /\ CloseElement(SetTop(ctxs, divClose(Top(ctxs))))

\* handleElement, case atom.Li
OpenLi ==
    /\ pc = "run"
    /\ OpenElement("li", <<>>,
                   IF options.TextOnly THEN Cur ELSE emit(Cur, <<"-", SP>>),
                   <<>>)

CloseLi ==
    /\ Closing({"li"})
    /\ CloseElement(SetTop(ctxs, emit(Top(ctxs), <<NL>>)))

\* handleElement, case atom.B, atom.Strong
OpenBold(tag) ==
    /\ pc = "run"
    /\ tag \in {"b", "strong"}
    /\ OpenElement(tag, <<>>, Cur,
                   <<[sub(Cur) EXCEPT !.endsWithSpace = TRUE]>>)

boldEmit(c, str) ==
    IF options.TextOnly THEN emit(c, str)
    ELSE emit(c, <<"*">> \o str \o <<"*">>)

CloseBold ==
    /\ Closing({"b", "strong"})
    /\ LET str == Top(ctxs).buf
           cs == Pop(ctxs)
       IN  CloseElement(SetTop(cs, boldEmit(Top(cs), str)))

\* handleElement, case atom.A, lines 289-298: the text emitted after the
\* link's content.
hrefLink(href, linkText) ==
    IF href # <<>>
    THEN LET attrVal == normalizeHrefLink(href)
         IN  IF (~options.OmitLinks /\ attrVal # <<>> /\ linkText # attrVal)
                \/ ~options.TextOnly
             THEN <<"(">> \o attrVal \o <<")">>
             ELSE <<>>
    ELSE <<>>

OpenA(href) ==
    /\ pc = "run"
    /\ OpenElement("a", href, Cur, <<>>)

\* Lines 272-298.  An img that is the only child is not traversed: its alt
\* text is emitted instead (a traversed img emits nothing).
CloseA ==
    /\ Closing({"a"})
    /\ LET f == Top(stack)
           linkText == IF f.nkids = 1 /\ f.first.type = "text"
                       THEN f.first.data ELSE <<>>
           c0 == IF f.nkids = 1 /\ f.first.type = "img"
                 THEN emit(Top(ctxs), f.first.data) ELSE Top(ctxs)
       IN  CloseElement(SetTop(ctxs, emit(c0, hrefLink(f.href, linkText))))

\* paragraphHandler; handleElement, case atom.P, atom.Ul
OpenParagraph(tag) ==
    /\ pc = "run"
    /\ tag \in {"p", "ul"}
    /\ OpenElement(tag, <<>>, emit(Cur, <<NL, NL>>), <<>>)

CloseParagraph ==
    /\ Closing({"p", "ul"})
    /\ CloseElement(SetTop(ctxs, emit(Top(ctxs), <<NL, NL>>)))

\* handleElement, case atom.Pre
OpenPre ==
    /\ pc = "run"
    /\ OpenElement("pre", <<>>, [Cur EXCEPT !.isPre = TRUE], <<>>)

ClosePre ==
    /\ Closing({"pre"})
    /\ CloseElement(SetTop(ctxs, [Top(ctxs) EXCEPT !.isPre = FALSE]))

(***************************************************************************)
(* Tables                                                                  *)
(***************************************************************************)
RECURSIVE tableRow(_)
tableRow(cells) ==
    IF cells = <<>> THEN <<>>
    ELSE <<SP>> \o Head(cells) \o <<SP, "|">> \o tableRow(Tail(cells))

tableLine(cells) ==
    IF cells = <<>> THEN <<>> ELSE <<"|">> \o tableRow(cells) \o <<NL>>

RECURSIVE tableLines(_)
tableLines(rows) ==
    IF rows = <<>> THEN <<>>
    ELSE tableLine(Head(rows)) \o tableLines(Tail(rows))

\* Lines 362-388: the block of text the table renderer (tablewriter, an
\* external collaborator) returns for the accumulated header, body and
\* footer.  Its layout is abstracted to one "| cell | cell |" line per row.
tableRender(t) ==
    tableLine(t.header) \o tableLines(t.body) \o tableLine(t.footer)

OpenTableShared ==
    /\ pc = "run"
    /\ Room
    /\ Shallow
    /\ LET c0 == [Cur EXCEPT !.tableLevel = @ + 1]
           cs == SetTop(Entered, emit(c0, <<NL, NL>>))
       IN  ctxs' = [i \in 1..Len(cs) |->
                      IF options.PrettyTables
                      THEN [cs[i] EXCEPT !.tableCtx = tableCtxInit] ELSE cs[i]]
    /\ stack' = Append(NoteChild(stack, "elem", <<>>), Frame("table", <<>>))
    /\ doc' = Append(doc, Ev("open", "table", <<>>))
    /\ UNCHANGED <<options, pc, text, err, tables, limits>>

\* handleElement, case atom.Table: lines 304-313, then paragraphHandler or
\* handleTableElement up to its traverseChildren.
OpenTable ==
    /\ pc = "run"
    /\ LET c0 == [Cur EXCEPT !.tableLevel = @ + 1]
           c1 == emit(c0, <<NL, NL>>)
           c2 == IF options.PrettyTables
                 THEN [c1 EXCEPT !.tableCtx = tableCtxInit] ELSE c1
       IN  OpenElement("table", <<>>, c2, <<>>)

\* The rest of the table handler, then the deferred tableLevel--.
CloseTable ==
    /\ Closing({"table"})
    /\ LET c == Top(ctxs)
           c1 == IF options.PrettyTables
                 THEN emit(c, tableRender(c.tableCtx)) ELSE c
           c2 == emit(c1, <<NL, NL>>)
       IN  /\ Closed(SetTop(ctxs, [c2 EXCEPT !.tableLevel = @ - 1]))
           /\ tables' = IF options.PrettyTables
                        THEN Append(tables, c.tableCtx) ELSE tables
    /\ UNCHANGED <<options, pc, text, err, limits>>

\* handleTableElement, case atom.Tfoot (plain traversal without PrettyTables)
OpenTfoot ==
    /\ pc = "run"
    /\ OpenElement("tfoot", <<>>,
                   IF options.PrettyTables
                   THEN [Cur EXCEPT !.tableCtx.isInFooter = TRUE] ELSE Cur,
                   <<>>)

CloseTfoot ==
    /\ Closing({"tfoot"})
    /\ CloseElement(SetTop(ctxs,
           IF options.PrettyTables
           THEN [Top(ctxs) EXCEPT !.tableCtx.isInFooter = FALSE]
           ELSE Top(ctxs)))

\* handleTableElement, case atom.Tr
OpenTr ==
    /\ pc = "run"
    /\ OpenElement("tr", <<>>,
                   IF options.PrettyTables
                   THEN [Cur EXCEPT !.tableCtx.body = Append(@, <<>>)] ELSE Cur,
                   <<>>)

nextRowStuck(t) == t

\* Line 407: the row index advances when the row's children are done.
nextRow(t) == [t EXCEPT !.tmpRow = @ + 1]

CloseTr ==
    /\ Closing({"tr"})
    /\ CloseElement(SetTop(ctxs,
           IF options.PrettyTables
           THEN [Top(ctxs) EXCEPT !.tableCtx = nextRow(@)]
           ELSE Top(ctxs)))

\* handleTableElement, case atom.Th and atom.Td: the children are rendered
\* one by one by renderEachChild (Entered, Leave).
OpenCell(tag) ==
    /\ pc = "run"
    /\ tag \in {"td", "th"}
    /\ OpenElement(tag, <<>>, Cur, <<>>)

\* renderEachChild's result: the children's texts joined by newlines.
cellText(f) == Join(f.cells, <<NL>>)

\* Line 426 indexes body[tmpRow]: whether that row exists.
HasRow(t) == t.tmpRow < Len(t.body)

\* Lines 415 and 423-427: where the cell's text is appended.
appendCell(t, tag, res) ==
    IF tag = "th" THEN [t EXCEPT !.header = Append(@, res)]
    ELSE IF t.isInFooter THEN [t EXCEPT !.footer = Append(@, res)]
    ELSE [t EXCEPT !.body[t.tmpRow + 1] = Append(@, res)]

\* The append of line 426 is an index out of range when the row is missing.
CellPanics(t, tag) == tag = "td" /\ ~t.isInFooter /\ ~HasRow(t)

CloseCell ==
    /\ Closing({"td", "th"})
    /\ LET f == Top(stack)
           c == Top(ctxs)
       IN  IF ~options.PrettyTables
           THEN CloseElement(ctxs)
           ELSE IF CellPanics(c.tableCtx, f.tag)
           THEN /\ pc' = "panic"
                /\ doc' = Append(doc, Ev("close", f.tag, <<>>))
                /\ UNCHANGED <<options, ctxs, stack, text, err, tables, limits>>
           ELSE CloseElement(SetTop(ctxs,
                    [c EXCEPT !.tableCtx = appendCell(@, f.tag, cellText(f))]))

(***************************************************************************)
(* Entry points                                                            *)
(***************************************************************************)
\* Bounds of the documents generated under Spec.
MaxNodes == 3
MaxDepth == 2

OptionsSet ==
    [PrettyTables : BOOLEAN, OmitLinks : BOOLEAN, TextOnly : BOOLEAN]

\* FromHTMLNode lines 69-80, called with a node tree.
InitRender(opts, maxNodes, maxDepth) ==
    /\ options \in opts
    /\ limits = [nodes |-> maxNodes, depth |-> maxDepth]
    /\ ctxs = <<NewContext>>
    /\ stack = <<>>
    /\ doc = <<>>
    /\ pc = "run"
    /\ text = <<>>
    /\ err = "nil"
    /\ tables = <<>>

\* FromString / FromReader, before the input is parsed.
Init ==
    /\ options \in OptionsSet
    /\ limits = [nodes |-> MaxNodes, depth |-> MaxDepth]
    /\ ctxs = <<NewContext>>
    /\ stack = <<>>
    /\ doc = <<>>
    /\ pc = "start"
    /\ text = <<>>
    /\ err = "nil"
    /\ tables = <<>>

\* What FromReader and FromString return when the BOM reader or html.Parse
\* fails: lines 96-98, 100-102 and 110-112.
parseFailureKeepsText(e) == [text |-> <<"x">>, err |-> e]

parseFailure(e) == [text |-> <<>>, err |-> e]

FromReaderError(e) ==
    /\ pc = "start"
    /\ text' = parseFailure(e).text
    /\ err' = parseFailure(e).err
    /\ pc' = "done"
    /\ UNCHANGED <<options, ctxs, stack, doc, tables, limits>>

\* html.Parse succeeded: line 103 calls FromHTMLNode on the document.
FromReaderParsed ==
    /\ pc = "start"
    /\ pc' = "run"
    /\ UNCHANGED <<options, ctxs, stack, doc, text, err, tables, limits>>

\* What FromHTMLNode returns after the traversal: lines 82-89 (traverse
\* never returns an error: emit always returns nil).
renderResult(buf) == [text |-> Normalize(buf), err |-> "nil"]

Return ==
    /\ pc = "run"
    /\ stack = <<>>
    /\ text' = renderResult(ctxs[1].buf).text
    /\ err' = renderResult(ctxs[1].buf).err
    /\ pc' = "done"
    /\ UNCHANGED <<options, ctxs, stack, doc, tables, limits>>

(***************************************************************************)
(* FromString on an input that may fail to parse, rendering a small        *)
(* document otherwise.                                                      *)
(***************************************************************************)
Errors == {"ParseError", "ReadError"}

Next ==
    \/ \E e \in Errors : FromReaderError(e)
    \/ FromReaderParsed
    \/ TextNode(<<SP, "x", SP>>)
    \/ Br
    \/ \E tag \in {"p", "ul"} : OpenParagraph(tag)
    \/ OpenDiv
    \/ OpenLi
    \/ CloseParagraph
    \/ CloseDiv
    \/ CloseLi
    \/ Return

Spec == Init /\ [][Next]_vars

\* C2: FromString, FromReader and FromHTMLNode never return a non-nil error
\* together with non-empty text: when the error is non-nil the text is empty.
C2_ErrorMeansNoText == pc = "done" /\ err # "nil" => text = <<>>

\* An error has been returned.
C2_Witness == pc = "done" /\ err \in Errors /\ text = <<>>

(***************************************************************************)
(* Links: a elements with text and img children.                           *)
(***************************************************************************)
LinkNodes == 3
LinkDepth == 1

Mailto == <<"m", "a", "i", "l", "t", "o", ":">>

Hrefs == { <<>>, <<"u">>, <<SP, "u", SP>>, Mailto \o <<"u">>, <<"v">> }

LinkTexts == { <<"u">>, <<"v">>, <<"u", SP>> }

InitLink ==
    InitRender([PrettyTables : {FALSE}, OmitLinks : BOOLEAN, TextOnly : BOOLEAN],
               LinkNodes, LinkDepth)

NextLink ==
    \/ \E href \in Hrefs : OpenA(href)
    \/ \E d \in LinkTexts : TextNode(d)
    \/ \E alt \in {<<>>, <<"i">>} : Img(alt)
    \/ CloseA
    \/ Return

SpecLink == InitLink /\ [][NextLink]_vars

\* The document is one a element whose only child is a text node.
IsTextLink ==
    /\ Len(doc) = 3
    /\ doc[1].k = "open" /\ doc[1].tag = "a"
    /\ doc[2].k = "text"
    /\ doc[3].k = "close"

\* C3: in default mode (OmitLinks false, TextOnly false) an a element whose
\* only child is a text node equal to its normalized href emits the visible
\* text once and no parenthesized href after it.
C3_NoDuplicateHref ==
    (/\ pc = "done"
     /\ ~options.OmitLinks /\ ~options.TextOnly
     /\ IsTextLink
     /\ doc[1].data # <<>>
     /\ doc[2].data = normalizeHrefLink(doc[1].data))
    => text = doc[2].data

\* C4: with OmitLinks set, handling an a element never emits its
\* parenthesized href, whatever TextOnly, the href and the link text are.
C4_OmitLinksOmits ==
    (pc = "done" /\ options.OmitLinks) => ~Contains(text, <<"(">>)

(***************************************************************************)
(* Headings: an h1, h2 or h3 with text and br children.                    *)
(***************************************************************************)
HeadingNodes == 4
HeadingDepth == 1

HeadingTexts == { <<"H", "i">>, <<Wide, Wide>>, <<"a", SP, "b", "c">> }

InitHeading ==
    InitRender([PrettyTables : {FALSE}, OmitLinks : {FALSE}, TextOnly : {FALSE}],
               HeadingNodes, HeadingDepth)

NextHeading ==
    \/ \E tag \in {"h1", "h2", "h3"} : OpenHeading(tag)
    \/ \E d \in HeadingTexts : TextNode(d)
    \/ Br
    \/ CloseHeading
    \/ Return

SpecHeading == InitHeading /\ [][NextHeading]_vars

\* The document is one element with a tag of tags, after an optional text.
IsSingleElement(tags) ==
    /\ doc # <<>>
    /\ doc[1].k = "open" /\ doc[1].tag \in tags
    /\ doc[Len(doc)].k = "close"
    /\ \A i \in 2..(Len(doc) - 1) : doc[i].k \in {"text", "leaf"}

IsRunOf(s, ch) == s # <<>> /\ \A i \in 1..Len(s) : s[i] = ch

\* The lines of the returned text lay out a heading: the heading's lines,
\* a divider of ch directly below them and, when over, directly above them,
\* the divider as long as the widest heading line.
IsHeadingLayout(lines, ch, over) ==
    LET first == IF over THEN 2 ELSE 1
        last == Len(lines) - 1
    IN  /\ last >= first
        /\ IsRunOf(lines[Len(lines)], ch)
        /\ over => lines[1] = lines[Len(lines)]
        /\ \A i \in first..last : lines[i] # <<>>
        /\ Len(lines[Len(lines)]) =
               MaxLineWidth(SubSeq(lines, first, last))

\* C5: for every h1/h2/h3 rendered with TextOnly false, the divider is a run
\* of '*' (h1) or '-' (h2/h3) as long as the maximum display width of the
\* lines of the heading text as emitted; h1 has it directly above and below
\* the heading text, h2/h3 only below; for every heading content.
C5_DividerMatchesHeading ==
    (/\ pc = "done"
     /\ ~options.TextOnly
     /\ IsSingleElement({"h1", "h2", "h3"})
     /\ text # <<>>)
    => IsHeadingLayout(Split(text, NL),
                       IF doc[1].tag = "h1" THEN "*" ELSE "-",
                       doc[1].tag = "h1")

(***************************************************************************)
(* Word wrapping: a sequence of text nodes, each one lineWrapper.write.    *)
(***************************************************************************)
WrapNodes == 3

\* Words around the wrapper's width, in narrow and in wide runes.
WrapTexts ==
    { <<"a">>,
      <<"b", SP, SP, "c">>,
      Repeat(<<"a">>, width - 2),
      Repeat(<<"a">>, width - 1),
      Repeat(<<"a">>, width),
      Repeat(<<"a">>, width + 1),
      Repeat(<<Wide>>, width \div 2 - 1) \o <<"a">>,
      <<"a", SP>> \o Repeat(<<Wide>>, width \div 2 - 1) \o <<NL, "b">> }

InitWrap ==
    InitRender([PrettyTables : {FALSE}, OmitLinks : {FALSE}, TextOnly : {FALSE}],
               WrapNodes, 0)

NextWrap ==
    \/ \E d \in WrapTexts : TextNode(d)
    \/ Return

SpecWrap == InitWrap /\ [][NextWrap]_vars

\* The words of a line are separated by exactly one space, and the line
\* neither starts nor ends with a space.
SingleSpaced(line) == Join(Fields(line), <<SP>>) = line

\* C6: a word starts a new output line exactly when the current line is
\* non-empty and current width + pending space + word width exceeds the
\* wrapper's width (78); so every line is at most 78 columns wide unless it
\* is a single word wider than 78, the first word of a line did not fit on
\* the line before it, and the words of a line are separated by one space.
C6_GreedyWrap ==
    LET c == ctxs[1]
        lines == Split(c.buf, NL)
    IN  /\ \A i \in 1..Len(lines) :
              /\ SingleSpaced(lines[i])
              /\ StringWidth(lines[i]) <= width \/ Len(Fields(lines[i])) = 1
        /\ \A i \in 1..(Len(lines) - 1) :
              /\ lines[i] # <<>>
              /\ lines[i + 1] # <<>>
              /\ StringWidth(lines[i]) + 1
                    + StringWidth(Fields(lines[i + 1])[1]) > width
        /\ c.lineWrapper.n = StringWidth(lines[Len(lines)])

\* A line is filled to exactly the width, one holds a single over-wide word,
\* and a word has been wrapped.
C6_Witness ==
    LET lines == Split(ctxs[1].buf, NL)
    IN  /\ Len(lines) >= 3
        /\ \E i \in 1..Len(lines) :
              StringWidth(lines[i]) = width /\ Len(Fields(lines[i])) > 1
        /\ \E i \in 1..Len(lines) : StringWidth(lines[i]) > width

(***************************************************************************)
(* Blank lines: one-letter text nodes among br, p, ul and b elements.      *)
(***************************************************************************)
BlankNodes == 5
BlankDepth == 2

InitBlank ==
    InitRender([PrettyTables : {FALSE}, OmitLinks : {FALSE}, TextOnly : BOOLEAN],
               BlankNodes, BlankDepth)

NextBlank ==
    \/ TextNode(<<"x">>)
    \/ Br
    \/ \E tag \in {"p", "ul"} : OpenParagraph(tag)
    \/ CloseParagraph
    \/ OpenBold("b")
    \/ CloseBold
    \/ Return

SpecBlank == InitBlank /\ [][NextBlank]_vars

\* The k-th smallest element of a set of integers.
Nth(S, k) == CHOOSE i \in S : Cardinality({j \in S : j < i}) = k - 1

\* Where the text nodes are in the document, and their letters in the output.
TextNodesAt == {i \in 1..Len(doc) : doc[i].k = "text"}
LettersAt == {i \in 1..Len(text) : text[i] = "x"}

\* Only br, p and ul tags lie strictly between document positions i and j,
\* and at least one does.
BlankRun(i, j) ==
    /\ j > i + 1
    /\ \A m \in (i + 1)..(j - 1) : doc[m].tag \in {"br", "p", "ul"}

\* C7: the returned string never holds three consecutive newlines and has no
\* leading or trailing whitespace; and a run of one or more blank-producing
\* elements (br, p, ul) between two text runs outside a table yields exactly
\* one blank line between those text runs in the returned string.
C7_OneBlankLine ==
    pc = "done" =>
        /\ ~Contains(text, <<NL, NL, NL>>)
        /\ text = TrimSpace(text)
        /\ Cardinality(LettersAt) = Cardinality(TextNodesAt)
        /\ \A k \in 1..(Cardinality(TextNodesAt) - 1) :
              BlankRun(Nth(TextNodesAt, k), Nth(TextNodesAt, k + 1))
              => SubSeq(text, Nth(LettersAt, k) + 1, Nth(LettersAt, k + 1) - 1)
                    = <<NL, NL>>

(***************************************************************************)
(* Raw output: preformatted text inside and outside a table.               *)
(***************************************************************************)
RawNodes == 4
RawDepth == 2

\* Text nodes with a newline followed by one space and by two spaces.
RawTexts == { <<"a", NL, SP, "b">>, <<"a", NL, SP, SP, "b">>, <<SP, "c">> }

InitRaw ==
    InitRender([PrettyTables : BOOLEAN, OmitLinks : {FALSE}, TextOnly : {FALSE}],
               RawNodes, RawDepth)

NextRaw ==
    \/ \E d \in RawTexts : TextNode(d)
    \/ OpenTable
    \/ CloseTable
    \/ OpenPre
    \/ ClosePre
    \/ Return

SpecRaw == InitRaw /\ [][NextRaw]_vars

\* C8: the returned string contains no newline immediately followed by a
\* space, whatever number of spaces followed the newline in the buffer.
C8_NoNewlineSpace == pc = "done" => ~Contains(text, <<NL, SP>>)

\* C8 as amended: the space right after each newline of the buffer is
\* removed, so the returned string has a newline followed by a space only
\* where the buffer had a newline followed by two or more spaces.
C8_OneSpaceRemoved ==
    pc = "done" =>
        (Contains(text, <<NL, SP>>) => Contains(ctxs[1].buf, <<NL, SP, SP>>))

\* The buffer held a newline followed by a single space, appended raw in
\* table mode, and the returned string has none.
C8_Witness ==
    /\ pc = "done"
    /\ Contains(ctxs[1].buf, <<NL, SP, "b">>)
    /\ ~Contains(ctxs[1].buf, <<NL, SP, SP>>)
    /\ ~Contains(text, <<NL, SP>>)

(***************************************************************************)
(* Pretty tables: one table of sections, rows and cells, each cell holding *)
(* at least one one-letter text node.                                      *)
(***************************************************************************)
TableNodes == 11
TableDepth == 4
\* The most children a table, a section or a row has, and a cell has.
MaxChildren == 2
MaxCellChildren == 1

AtRoot == stack = <<>>
Within(tags, most) ==
    stack # <<>> /\ Top(stack).tag \in tags /\ Top(stack).nkids < most

HasChild == stack # <<>> /\ Top(stack).nkids > 0

\* The text nodes of a document read x, y, z, x, ... in document order.
NextLetter ==
    LET k == Cardinality({i \in 1..Len(doc) : doc[i].k = "text"}) % 3
    IN  IF k = 0 THEN <<"x">> ELSE IF k = 1 THEN <<"y">> ELSE <<"z">>

InitTable ==
    InitRender([PrettyTables : {TRUE}, OmitLinks : {FALSE}, TextOnly : {FALSE}],
               TableNodes, TableDepth)

NextTable ==
    \/ doc = <<>> /\ OpenTable
    \/ Within({"table"}, MaxChildren) /\ OpenOther("tbody")
    \/ Within({"table"}, MaxChildren) /\ OpenTfoot
    \/ Within({"tbody", "tfoot"}, MaxChildren) /\ OpenTr
    \/ Within({"tr"}, MaxChildren) /\ \E tag \in {"td", "th"} : OpenCell(tag)
    \/ Within({"table"}, MaxChildren) /\ OpenCell("td")
    \/ Within({"td", "th"}, MaxCellChildren) /\ TextNode(NextLetter)
    \/ HasChild /\ CloseCell
    \/ CloseTr
    \/ CloseTfoot
    \/ CloseOther({"tbody"})
    \/ CloseTable
    \/ Return

SpecTable == InitTable /\ [][NextTable]_vars

\* C1: with PrettyTables enabled, a td reached while no tr has been opened
\* (the body has no row at the current row index) is silently dropped and
\* FromHTMLNode returns normally instead of panicking.
C1_NeverPanics == pc # "panic"

\* The table structure read off the document: the th texts, the td texts
\* under a tfoot, and one row per tr holding the texts of the other td
\* cells of that tr.  A cell's text is its children's texts joined by
\* newlines.  ok: sections lie in the table, rows in the table or a
\* section, cells in rows, text in cells.
RECURSIVE ReadTable(_, _)
ReadTable(i, r) ==
    IF i > Len(doc) THEN r
    ELSE LET e == doc[i]
             parent == IF r.path = <<>> THEN "" ELSE Top(r.path).tag
         IN  IF e.k = "text"
             THEN ReadTable(i + 1,
                      [r EXCEPT !.cell = Append(@, e.data),
                                !.ok = @ /\ parent \in {"td", "th"}])
             ELSE IF e.k = "open"
             THEN LET rows == IF e.tag = "tr"
                              THEN Append(r.rows, <<>>) ELSE r.rows
                      fine ==
                          CASE e.tag = "table" -> parent = ""
                            [] e.tag \in {"thead", "tbody", "tfoot"} ->
                                   parent = "table"
                            [] e.tag = "tr" ->
                                   parent \in {"table", "thead", "tbody", "tfoot"}
                            [] e.tag \in {"td", "th"} -> parent = "tr"
                            [] OTHER -> FALSE
                  IN  ReadTable(i + 1,
                          [r EXCEPT !.path = Append(@, [tag |-> e.tag,
                                                        row |-> Len(rows)]),
                                    !.rows = rows,
                                    !.cell = <<>>,
                                    !.ok = @ /\ fine])
             ELSE IF e.k = "close"
             THEN LET res == Join(r.cell, <<NL>>)
                      inFoot == \E k \in 1..Len(r.path) : r.path[k].tag = "tfoot"
                      trs == {k \in 1..Len(r.path) : r.path[k].tag = "tr"}
                      row == IF trs = {} THEN 0 ELSE r.path[Greatest(trs)].row
                      r1 == IF e.tag = "th"
                            THEN [r EXCEPT !.header = Append(@, res)]
                            ELSE IF e.tag = "td" /\ inFoot
                            THEN [r EXCEPT !.footer = Append(@, res)]
                            ELSE IF e.tag = "td" /\ row > 0
                            THEN [r EXCEPT !.rows[row] = Append(@, res)]
                            ELSE r
                  IN  ReadTable(i + 1, [r1 EXCEPT !.path = Pop(@)])
             ELSE ReadTable(i + 1, [r EXCEPT !.ok = FALSE])

TableRead ==
    ReadTable(1, [path |-> <<>>, header |-> <<>>, footer |-> <<>>,
                  rows |-> <<>>, cell |-> <<>>, ok |-> TRUE])

\* C9: with PrettyTables enabled, after a table whose sections contain tr
\* rows of th/td cells, the accumulator handed to the table renderer has as
\* header the texts of all th cells in document order, as footer the texts
\* of the td cells inside tfoot, and every other td in the body row created
\* by its own tr and in no other row.
C9_TablePartition ==
    (tables # <<>> /\ TableRead.ok) =>
        /\ tables[1].header = TableRead.header
        /\ tables[1].footer = TableRead.footer
        /\ tables[1].body = TableRead.rows

\* A table with a header cell, a footer cell and a td in its second row has
\* been handed to the renderer.
C9_Witness ==
    /\ tables # <<>>
    /\ TableRead.ok
    /\ tables[1].header # <<>>
    /\ tables[1].footer # <<>>
    /\ Len(tables[1].body) >= 2
    /\ tables[1].body[2] # <<>>

(***************************************************************************)
(* Plain text: a document that is one text node of words separated by      *)
(* blanks and newlines.                                                     *)
(***************************************************************************)
PlainWords == 3

\* Words that fill half a line, narrow and wide, and a word wider than a
\* line.
Words ==
    { <<"a">>,
      Repeat(<<"b">>, width \div 2 - 1),
      Repeat(<<Wide>>, width \div 4) \o <<"c">>,
      Repeat(<<"d">>, width + 1) }

Separators == { <<SP>>, <<SP, SP>>, <<NL, SP>> }

RECURSIVE PlainFrom(_, _, _)
PlainFrom(ws, seps, i) ==
    IF i = Len(ws) THEN ws[i]
    ELSE ws[i] \o seps[i] \o PlainFrom(ws, seps, i + 1)

PlainTexts ==
    { PlainFrom(ws, seps, 1) \o trail :
        ws \in [1..PlainWords -> Words],
        seps \in [1..(PlainWords - 1) -> Separators],
        trail \in {<<>>, <<SP, NL>>} }

InitPlain ==
    InitRender([PrettyTables : {FALSE}, OmitLinks : {FALSE}, TextOnly : {FALSE}],
               1, 0)

NextPlain ==
    \/ doc = <<>> /\ \E d \in PlainTexts : TextNode(d)
    \/ Return

SpecPlain == InitPlain /\ [][NextPlain]_vars

\* FromHTMLNode on the document whose only node is a text node holding s.
renderPlain(s) == renderResult(emit(NewContext, TrimSpace(s)).buf).text

RECURSIVE Flatten(_)
Flatten(ss) == IF ss = <<>> THEN <<>> ELSE Head(ss) \o Flatten(Tail(ss))

\* The words of every line of s, in order.
WordsOfLines(s) ==
    LET lines == Split(s, NL)
    IN  Flatten([i \in 1..Len(lines) |-> Fields(lines[i])])

\* C10: the rendering of a markup-free document (one text node of words
\* separated by white space) is its words, in order, reflowed greedily to
\* width 78 with single spaces: every line is single-spaced and at most 78
\* columns wide unless it is one over-wide word, and the first word of a
\* line did not fit at the end of the line before it; rendering the
\* returned text again as plain text returns the same text.
C10_PlainIdempotent ==
    (pc = "done" /\ Len(doc) = 1)
    => LET lines == Split(text, NL)
       IN  /\ WordsOfLines(text) = Fields(doc[1].data)
           /\ \A i \in 1..Len(lines) :
                 /\ lines[i] # <<>>
                 /\ lines[i] = Join(Fields(lines[i]), <<SP>>)
                 /\ StringWidth(lines[i]) <= width \/ Len(Fields(lines[i])) = 1
           /\ \A i \in 1..(Len(lines) - 1) :
                 StringWidth(lines[i]) + 1
                    + StringWidth(Fields(lines[i + 1])[1]) > width
           /\ renderPlain(text) = text

\* A text whose rendering differs from it, wraps, fills a line to the
\* width with two words, and has a wide word.
C10_Witness ==
    /\ pc = "done"
    /\ Len(doc) = 1
    /\ text # doc[1].data
    /\ Contains(doc[1].data, <<SP, SP>>)
    /\ LET lines == Split(text, NL)
       IN  /\ Len(lines) = 2
           /\ StringWidth(lines[1]) = width
           /\ Len(Fields(lines[1])) = 2
           /\ StringWidth(lines[2]) > Len(lines[2])

(***************************************************************************)
(* The line wrapper on its own: a sequence of write, flush and flushN      *)
(* calls on the wrapper of one context.  doc records each call, its        *)
(* argument (for a flush the newlines asked for) and, in out, what the     *)
(* call appended to the buffer.                                            *)
(***************************************************************************)
WrapperCalls == 5
MaxFlush == 2

\* Arguments of write: words, white space only, a word as wide as a line.
WriterTexts == { <<"a">>, <<SP>>, <<"a", SP, "b">>, Repeat(<<"c">>, width) }

\* A call on the wrapper of the context, which leaves the context c.
WrapperCall(k, arg, c) ==
    /\ pc = "run"
    /\ Room
    /\ ctxs' = <<c>>
    /\ doc' = Append(doc, [k |-> k, tag |-> "", data |-> arg,
                           out |-> SubSeq(c.buf, Len(ctxs[1].buf) + 1,
                                          Len(c.buf))])
    /\ UNCHANGED <<options, stack, pc, text, err, tables, limits>>

\* l.write(text)
CallWrite(s) == WrapperCall("write", s, write(ctxs[1], s))

\* l.flush()
CallFlush == WrapperCall("flush", <<NL>>, flush(ctxs[1]))

\* l.flushN(k)
CallFlushN(k) ==
    WrapperCall("flushN", Repeat(<<NL>>, k), flushN(ctxs[1], k))

InitWrapper ==
    InitRender([PrettyTables : {FALSE}, OmitLinks : {FALSE}, TextOnly : {FALSE}],
               WrapperCalls, 0)

NextWrapper ==
    \/ \E s \in WriterTexts : CallWrite(s)
    \/ CallFlush
    \/ \E k \in 2..MaxFlush : CallFlushN(k)

SpecWrapper == InitWrapper /\ [][NextWrapper]_vars

IsFlushCall(e) == e.k \in {"flush", "flushN"}

\* What the calls i..j appended to the buffer.
RECURSIVE Written(_, _)
Written(i, j) == IF i > j THEN <<>> ELSE doc[i].out \o Written(i + 1, j)

\* The most newlines asked for by the flush calls i..j.
RECURSIVE MostAsked(_, _)
MostAsked(i, j) ==
    IF i > j THEN 0 ELSE Max(Len(doc[i].data), MostAsked(i + 1, j))

\* The calls i..j are flushes that follow a write, or the construction of
\* the wrapper, with no write in between.
IsFlushRun(i, j) ==
    /\ i <= j
    /\ i = 1 \/ doc[i - 1].k = "write"
    /\ \A m \in i..j : IsFlushCall(doc[m])

\* C11: blank-line requests are capped, never compounded: a sequence of
\* flush() / flushN(k) calls with no write in between writes as many
\* newlines in total as the largest k asked for in it (flush counts as 1).
C11_FlushCapped ==
    \A i, j \in 1..Len(doc) :
        IsFlushRun(i, j) => Written(i, j) = Repeat(<<NL>>, MostAsked(i, j))

\* flushN(2) after flush() wrote one more newline, and flushN(2) again wrote
\* none.
C11_Witness ==
    \E i \in 2..(Len(doc) - 2) :
        /\ doc[i - 1].k = "write" /\ doc[i - 1].out # <<>>
        /\ doc[i].k = "flush" /\ doc[i].out = <<NL>>
        /\ doc[i + 1].k = "flushN" /\ doc[i + 1].out = <<NL>>
        /\ doc[i + 2].k = "flushN" /\ doc[i + 2].out = <<>>

\* The call i wrote words.
WroteWords(i) == doc[i].k = "write" /\ Fields(doc[i].data) # <<>>

\* The last call before i that wrote words (0 when there is none).
LastWords(i) ==
    LET before == {m \in 1..(i - 1) : WroteWords(m)}
    IN  IF before = {} THEN 0 ELSE Greatest(before)

\* C19: a write made while the wrapper is at column 0 and has printed
\* before is separated from the text written before it by an empty line
\* (two consecutive newlines), also when column 0 was reached through a
\* flush().
C19_BlankLineForced ==
    \A i \in 2..Len(doc) :
        (/\ WroteWords(i)
         /\ IsFlushCall(doc[i - 1])
         /\ LastWords(i) > 0)
        => HasPrefix(Written(LastWords(i) + 1, i), <<NL, NL>>)

\* C20: after any sequence of write / flush / flushN calls pendSpace is 0
\* or 1, n > 0 implies nl = 0, and nl > 0 implies n = 0 and pendSpace = 0.
C20_WrapperInvariant ==
    LET l == ctxs[1].lineWrapper
    IN  /\ l.pendSpace \in {0, 1}
        /\ l.n > 0 => l.nl = 0
        /\ l.nl > 0 => l.n = 0 /\ l.pendSpace = 0

\* Words were written after a flush, a word was wrapped, and the wrapper
\* has been left with a pending space and with flushed newlines.
C20_Witness ==
    /\ \E i \in 2..Len(doc) : WroteWords(i) /\ IsFlushCall(doc[i - 1])
    /\ \E i \in 1..Len(doc) :
          doc[i].k = "write" /\ Contains(doc[i].out, <<NL, "c">>)
    /\ \E i \in 1..(Len(doc) - 1) :
          doc[i].k = "write" /\ doc[i].out # <<>> /\ doc[i + 1].out = <<NL, NL>>
    /\ ctxs[1].lineWrapper.nl = 2

(***************************************************************************)
(* Text inside a table: one table of one row whose cells hold text, b and  *)
(* heading elements.                                                        *)
(***************************************************************************)
CellNodes == 7
CellDepth == 4
CellChildren == 2

\* A short text and a text of two words that do not fit on one line of the
\* wrapper together.
CellTexts ==
    { <<"x">>,
      Repeat(<<"a">>, width \div 2) \o <<SP>> \o Repeat(<<"b">>, width \div 2) }

InitCell ==
    InitRender([PrettyTables : BOOLEAN, OmitLinks : {FALSE}, TextOnly : {FALSE}],
               CellNodes, CellDepth)

NextCell ==
    \/ doc = <<>> /\ OpenTable
    \/ Within({"table"}, 1) /\ OpenTr
    \/ Within({"tr"}, CellChildren) /\ OpenCell("td")
    \/ Within({"td"}, 1) /\ OpenBold("b")
    \/ Within({"td"}, 1) /\ OpenHeading("h2")
    \/ Within({"td", "b", "h2"}, 1) /\ \E d \in CellTexts : TextNode(d)
    \/ HasChild /\ CloseBold
    \/ HasChild /\ CloseHeading
    \/ HasChild /\ CloseCell
    \/ HasChild /\ CloseTr
    \/ HasChild /\ CloseTable
    \/ Return

SpecCell == InitCell /\ [][NextCell]_vars

\* The cell texts of the accumulators handed to the table renderer.
HandedCells ==
    UNION { {t.header[i] : i \in 1..Len(t.header)}
            \cup {t.footer[i] : i \in 1..Len(t.footer)}
            \cup UNION { {t.body[r][i] : i \in 1..Len(t.body[r])} :
                           r \in 1..Len(t.body) } :
            t \in {tables[k] : k \in 1..Len(tables)} }

\* C12: text inside a table subtree never goes through the wrapper's word
\* wrapping: the text of every text node inside the table reaches the
\* output (with PrettyTables, the cell handed to the table renderer)
\* unbroken, also inside b and heading elements nested in the table.
C12_TableTextRaw ==
    pc = "done" =>
        \A i \in 1..Len(doc) :
            doc[i].k = "text" =>
                IF options.PrettyTables
                THEN \E cell \in HandedCells : Contains(cell, doc[i].data)
                ELSE Contains(text, doc[i].data)

(***************************************************************************)
(* Headings with TextOnly set.                                             *)
(***************************************************************************)
InitTextOnly ==
    InitRender([PrettyTables : {FALSE}, OmitLinks : {FALSE}, TextOnly : {TRUE}],
               HeadingNodes, HeadingDepth)

SpecTextOnly == InitTextOnly /\ [][NextHeading]_vars

HasSuffix(s, p) ==
    Len(s) >= Len(p) /\ SubSeq(s, Len(s) - Len(p) + 1, Len(s)) = p

\* C13: with TextOnly set, when the handler of an h1/h2/h3 outside a table
\* returns, the wrapper is at column 0 and two newlines have been written
\* after the heading's text, so text emitted next does not continue on the
\* heading's line.
C13_TextOnlyHeadingBlankLine ==
    (/\ pc = "run"
     /\ options.TextOnly
     /\ stack = <<>>
     /\ doc # <<>>
     /\ doc[Len(doc)].k = "close"
     /\ doc[Len(doc)].tag \in {"h1", "h2", "h3"})
    => /\ ctxs[1].lineWrapper.n = 0
       /\ HasSuffix(ctxs[1].buf, <<NL, NL>>)

\* C14: inside a pre element a text node's content reaches the output
\* buffer verbatim: its internal white space, its line breaks and its
\* leading and trailing white space are unchanged and no reflow is applied.
\* (The claim's second half, about text outside pre, is not needed to
\* refute it.)
C14_PreVerbatim ==
    (/\ pc = "run"
     /\ doc # <<>>
     /\ doc[Len(doc)].k = "text"
     /\ ctxs[1].isPre)
    => HasSuffix(ctxs[1].buf, doc[Len(doc)].data)

\* C15: handling a pre element restores the prior preformatted mode: when
\* the handler returns, isPre has the value it had before the handler was
\* entered, so after a pre nested inside another pre the text that follows
\* is still preformatted.
C15_PreRestored ==
    (/\ pc = "run"
     /\ doc # <<>>
     /\ doc[Len(doc)].k = "close"
     /\ doc[Len(doc)].tag = "pre")
    => (ctxs[1].isPre <=> \E i \in 1..Len(stack) : stack[i].tag = "pre")

(***************************************************************************)
(* Divs: nested and adjacent div elements around one-letter text nodes.    *)
(***************************************************************************)
DivNodes == 5
DivDepth == 2

InitDiv ==
    InitRender([PrettyTables : {FALSE}, OmitLinks : {FALSE}, TextOnly : {FALSE}],
               DivNodes, DivDepth)

NextDiv ==
    \/ OpenDiv
    \/ CloseDiv
    \/ TextNode(NextLetter)
    \/ Return

SpecDiv == InitDiv /\ [][NextDiv]_vars

\* C16: a closing div emits a newline unless the action right before it
\* was itself a div close; so text that follows a closing div tag is never
\* on the output line of the text emitted before that tag, and div closes
\* never leave an empty line.
C16_DivCloseBreaksLine ==
    LET buf == ctxs[1].buf
    IN  /\ ~Contains(buf, <<NL, NL>>)
        /\ (/\ pc = "run"
            /\ Len(doc) >= 2
            /\ doc[Len(doc)].k = "text"
            /\ doc[Len(doc) - 1].k = "close"
            /\ Len(buf) >= 2)
           => buf[Len(buf) - 1] = NL

\* The context i is suspended: a nested rendering is running above it (a
\* sub-context, or the FromHTMLNode call of a cell's child), or it is the
\* context of a cell handler that is in renderEachChild.
Suspended(cs, st, i) ==
    /\ i \in 1..Len(cs)
    /\ \/ i < Len(cs)
       \/ st # <<>> /\ IsCellFrame(Top(st))

\* C17: nested rendering is isolated: while a cell is rendered through
\* renderEachChild or a subtree is rendered in a sub-context, the enclosing
\* context (buffer, wrapper state, nesting counters, table accumulator) is
\* left unchanged; it changes only when its own handler resumes and emits
\* or appends the returned text.  The options are never written.
C17_NestedIsolated ==
    [][/\ options' = options
       /\ \A i \in 1..Len(ctxs) :
             (Suspended(ctxs, stack, i) /\ Suspended(ctxs', stack', i))
             => ctxs'[i] = ctxs[i]]_vars

\* A b element inside a cell is being rendered with PrettyTables: the
\* table's context, the cell child's context and the sub-context of b are
\* live, and the innermost has received text.
C17_Witness ==
    /\ options.PrettyTables
    /\ Len(ctxs) = 3
    /\ ctxs[1].buf # <<>>
    /\ ctxs[1].tableCtx.body # <<>>
    /\ ctxs[3].buf # <<>>

(***************************************************************************)
(* Nested tables: a table whose cells hold text or another table, with     *)
(* PrettyTables.                                                            *)
(***************************************************************************)
NestedNodes == 9
NestedDepth == 6

InitNested ==
    InitRender([PrettyTables : {TRUE}, OmitLinks : {FALSE}, TextOnly : {FALSE}],
               NestedNodes, NestedDepth)

NextNested ==
    \/ doc = <<>> /\ OpenTable
    \/ Within({"td", "th"}, 1) /\ OpenTable
    \/ Within({"table"}, 1) /\ OpenTr
    \/ Within({"tr"}, MaxChildren) /\ \E tag \in {"td", "th"} : OpenCell(tag)
    \/ Within({"td", "th"}, 1) /\ TextNode(NextLetter)
    \/ HasChild /\ CloseCell
    \/ HasChild /\ CloseTr
    \/ HasChild /\ CloseTable
    \/ Return

SpecNested == InitNested /\ [][NextNested]_vars

\* A table nested in a cell has just been processed.
NestedTableDone ==
    /\ pc = "run"
    /\ stack # <<>>
    /\ doc[Len(doc)].k = "close"
    /\ doc[Len(doc)].tag = "table"

\* C18: with PrettyTables, a table nested inside a td/th cell of an outer
\* table resets the single shared accumulator: after the nested table has
\* been processed, the outer table's header, body rows, footer and row
\* index collected so far have been cleared.
C18_NestedTableResets ==
    NestedTableDone => ctxs[1].tableCtx = tableCtxInit

\* C18, restated: a table nested inside a td/th cell is rendered by a
\* FromHTMLNode call of its own, with an accumulator of its own: no step
\* taken while a cell's child is being rendered (the nested table's start,
\* its rows and cells, its end) changes the outer table's header, body
\* rows, footer or row index.
C18_OuterAccumulatorKept ==
    [][(Len(ctxs) >= 2 \/ Len(ctxs') >= 2)
       => ctxs'[1].tableCtx = ctxs[1].tableCtx]_vars

\* A nested table has been processed after the outer row collected a cell:
\* the outer accumulator still holds that cell, the nested table's own
\* accumulator went to the renderer, and its text came back to the cell.
C18_Witness ==
    /\ NestedTableDone
    /\ Len(ctxs) = 1
    /\ ctxs[1].tableCtx.header \o ctxs[1].tableCtx.body[1] # <<>>
    /\ tables # <<>>
    /\ tables[1].header \o tables[1].body[1] # <<>>
    /\ Top(stack).cells # <<>>

====
